---- MODULE Spec2Model ----
(***************************************************************************)
(* The TLV message codec of koruza-driver (src/message.c, src/message.h). *)
(*                                                                         *)
(* A message_t is a record count and an array of tlv_t slots; a slot is a *)
(* type, a 16-bit length and a pointer to a malloc'd value buffer.  The   *)
(* model keeps the slots below the record count as a sequence and the     *)
(* allocator's live buffers as the function heap: pointer -> bytes.       *)
(* A 32-bit unsigned word is kept as the set of its one bits (0 = least   *)
(* significant), so no arithmetic leaves the range of the integers.       *)
(***************************************************************************)
EXTENDS Integers, Sequences, FiniteSets, TLC

VARIABLES
  message,   \* the message_t the caller holds: its records tlv[0 .. length-1]
  heap,      \* the live malloc'd buffers: pointer -> contents
  op,        \* the last call made on the message
  result,    \* what that call returned
  buffer,    \* the byte buffer of that call (parse: data, serialize: buffer)
  out,       \* the destination of that call (getters), as memory bytes
  nomem,     \* whether a malloc of that call returned NULL
  devices,   \* serial.c: device_motors and device_accelerometer
  fds,       \* the open descriptors of the process: number -> description
  reinit     \* the device the last call ran serial_reinit_device on

vars == <<message, heap, op, result, buffer, out, nomem, devices, fds, reinit>>

serialVars == <<devices, fds, reinit>>

----------------------------------------------------------------------------
(* Program constants.                                                      *)

MAX_TLV_COUNT == 25

TLV_COMMAND == 1
TLV_REPLY == 2
TLV_CHECKSUM == 3
TLV_MOTOR_POSITION == 4
TLV_CURRENT_READING == 5
TLV_SFP_CALIBRATION == 6

COMMAND_MOVE_MOTOR == 2
REPLY_STATUS_REPORT == 1

MESSAGE_SUCCESS == 0
MESSAGE_ERROR_TOO_MANY_TLVS == -1
MESSAGE_ERROR_OUT_OF_MEMORY == -2
MESSAGE_ERROR_BUFFER_TOO_SMALL == -3
MESSAGE_ERROR_PARSE_ERROR == -4
MESSAGE_ERROR_CHECKSUM_MISMATCH == -5
MESSAGE_ERROR_TLV_NOT_FOUND == -6

\* The null pointer; live buffers have pointers 1, 2, ...
NULL == 0

\* sizeof(uint8_t) + sizeof(uint16_t): the header of a record on the wire.
HeaderSize == 1 + 2

\* sizeof(tlv_motor_position_t): three int32_t.
MotorPositionSize == 3 * 4

----------------------------------------------------------------------------
(* Bounds of the exploration.                                              *)

\* Records of any kind are added only below this record count; above it a
\* message grows only as a run of one repeated command record.
MaxVaried == 2

\* Frames handed to message_parse carry at most this many records before
\* their checksum record.
MaxFrameRecs == 2

----------------------------------------------------------------------------
(* Bytes and words.                                                        *)

Byte == 0 .. 255

Min(a, b) == IF a < b THEN a ELSE b

\* The one bits of byte b.
ByteBits(b) == {i \in 0 .. 7 : (b \div (2 ^ i)) % 2 = 1}

\* The byte whose one bits are s \cap 0..7.
BitsByte(s) ==
  LET bit(i) == IF i \in s THEN 2 ^ i ELSE 0
  IN bit(0) + bit(1) + bit(2) + bit(3) + bit(4) + bit(5) + bit(6) + bit(7)

\* The bit positions of a uint32_t.
Bits == 0 .. 31

XOR(a, b) == {i \in Bits : (i \in a) # (i \in b)}

ShiftRight(a, k) == {i \in Bits : i + k \in a}

AllOnes == Bits

\* A uint16_t stored and read least significant byte first: what the codec
\* would do if it left the length in host order on a little-endian host.
htons_host(v) == <<v % 256, (v \div 256) % 256>>

ntohs_host(b) == b[1] + b[2] * 256

\* htons / ntohs: a uint16_t and its two bytes in network order.
htons(v) == <<(v \div 256) % 256, v % 256>>

ntohs(b) == b[1] * 256 + b[2]

\* An int32_t stored least significant byte first: a htonl that does
\* nothing on a little-endian host.
htonl_host(v) ==
  <<v % 256, (v \div 256) % 256, (v \div 65536) % 256, (v \div 16777216) % 256>>

\* htonl / ntohl on an int32_t: its four two's-complement bytes, most
\* significant first, and back.
htonl(v) ==
  <<(v \div 16777216) % 256, (v \div 65536) % 256, (v \div 256) % 256, v % 256>>

ntohl(b) ==
  (IF b[1] >= 128 THEN b[1] - 256 ELSE b[1]) * 16777216
    + b[2] * 65536 + b[3] * 256 + b[4]

\* htonl on a uint32_t kept as a bit set: its four bytes in memory.
htonlBits(w) ==
  <<BitsByte(ShiftRight(w, 24)), BitsByte(ShiftRight(w, 16)),
    BitsByte(ShiftRight(w, 8)), BitsByte(w)>>

----------------------------------------------------------------------------
(* crc32.h: the CRC-32 primitive (reflected polynomial EDB88320).          *)

Polynomial == {31, 30, 29, 27, 26, 24, 23, 21, 20, 19, 15, 9, 8, 5}

RECURSIVE crc32_shift(_, _)
crc32_shift(c, n) ==
  IF n = 0 THEN c
  ELSE crc32_shift(IF 0 \in c THEN XOR(Polynomial, ShiftRight(c, 1))
                   ELSE ShiftRight(c, 1), n - 1)

crc32_tab == [n \in Byte |-> crc32_shift(ByteBits(n), 8)]

\* The loop over the bytes of buf; st holds the loop's variables.
RECURSIVE crc32_update(_, _)
crc32_update(st, buf) ==
  IF st.i > Len(buf) THEN st.crc
  ELSE crc32_update(
         [crc |-> XOR(crc32_tab[BitsByte(XOR(st.crc, ByteBits(buf[st.i])))],
                      ShiftRight(st.crc, 8)),
          i |-> st.i + 1],
         buf)

crc32(crc, buf) ==
  XOR(crc32_update([crc |-> XOR(crc, AllOnes), i |-> 1], buf), AllOnes)

----------------------------------------------------------------------------
(* The allocator.                                                          *)

\* malloc: a pointer that is not live.
malloc(h) ==
  CHOOSE p \in 1 .. Cardinality(DOMAIN h) + 1 :
    /\ p \notin DOMAIN h
    /\ \A q \in 1 .. p - 1 : q \in DOMAIN h

\* The heap with buffer p allocated and filled with bytes.
Store(h, p, bytes) == (p :> bytes) @@ h

\* free(p); free(NULL) does nothing.
free(h, p) == [q \in DOMAIN h \ {p} |-> h[q]] @@ <<>>

\* The value bytes of record r.
Value(h, r) == SubSeq(h[r.value], 1, r.length)

\* The pointers the records of tlv hold.
Owned(tlv) == {tlv[i].value : i \in 1 .. Len(tlv)}

\* The live buffers no record of tlv points to.
Leaked(tlv, h) == DOMAIN h \ Owned(tlv)

----------------------------------------------------------------------------
(* message_init, message_free, message_checksum.                           *)

\* The for loop of message_free; st holds the heap and the index i.
RECURSIVE FreeValues(_, _)
FreeValues(tlv, st) ==
  IF st.i > Len(tlv) THEN st.heap
  ELSE FreeValues(tlv, [heap |-> free(st.heap, tlv[st.i].value), i |-> st.i + 1])

\* A message_init that frees the value buffers of the records it finds.
message_init_releasing(tlv, h) ==
  [message |-> <<>>, heap |-> FreeValues(tlv, [heap |-> h, i |-> 1])]

\* memset(message, 0, sizeof(message_t)): no record, nothing freed.
message_init(tlv, h) == [message |-> <<>>, heap |-> h]

message_free(tlv, h) == message_init(tlv, FreeValues(tlv, [heap |-> h, i |-> 1]))

\* The for loop of message_checksum; st holds checksum and the index i.
RECURSIVE ChecksumLoop(_, _, _)
ChecksumLoop(tlv, h, st) ==
  IF st.i > Len(tlv) THEN st.checksum
  ELSE ChecksumLoop(tlv, h,
         [checksum |-> crc32(st.checksum, Value(h, tlv[st.i])), i |-> st.i + 1])

\* A message_checksum without the htonl: the four bytes in the order a
\* little-endian host keeps them.
message_checksum_host(tlv, h) ==
  LET w == ChecksumLoop(tlv, h, [checksum |-> {}, i |-> 1]) IN
  <<BitsByte(w), BitsByte(ShiftRight(w, 8)),
    BitsByte(ShiftRight(w, 16)), BitsByte(ShiftRight(w, 24))>>

\* The uint32_t message_checksum returns, as its four bytes in memory.
message_checksum(tlv, h) == htonlBits(ChecksumLoop(tlv, h, [checksum |-> {}, i |-> 1]))

----------------------------------------------------------------------------
(* message_parse.                                                          *)

\* memcmp(a, b, n) != 0 on two byte buffers that both hold n bytes.
memcmp(a, b, n) == SubSeq(a, 1, n) # SubSeq(b, 1, n)

\* The third argument of the memcmp in message_parse, as the compiler reads
\* it: sizeof(uint32_t) != 0, which is 1.
ChecksumCompareLength == IF 4 # 0 THEN 1 ELSE 0

\* A return of message_parse with an error: message_free, then the code.
ParseFail(tlv, h, code, null) ==
  [message |-> message_free(tlv, h).message, heap |-> message_free(tlv, h).heap,
   offset |-> 0, result |-> code, nomem |-> null, done |-> TRUE]

\* One pass through the body of the while loop of message_parse, entered at
\* `offset` with the records tlv[0 .. length-1] parsed so far.  failAt is the
\* record index whose malloc returns NULL (none when no record has that
\* index); outside is what a memcmp that reads past the end of a value
\* buffer answers.
ParseRecord(tlv, h, data, offset, failAt, outside) ==
  IF Len(tlv) >= MAX_TLV_COUNT THEN
    ParseFail(tlv, h, MESSAGE_ERROR_TOO_MANY_TLVS, FALSE)
  ELSE
    LET type == data[offset + 1]
        o1 == offset + 1
    IN
    IF o1 + 2 > Len(data) THEN
      ParseFail(tlv, h, MESSAGE_ERROR_PARSE_ERROR, FALSE)
    ELSE
      LET length == ntohs(SubSeq(data, o1 + 1, o1 + 2))
          o2 == o1 + 2
      IN
      IF o2 + length > Len(data) THEN
        ParseFail(tlv, h, MESSAGE_ERROR_PARSE_ERROR, FALSE)
      ELSE
        LET value == IF Len(tlv) = failAt THEN NULL ELSE malloc(h) IN
        IF value = NULL THEN
          ParseFail(tlv, h, MESSAGE_ERROR_OUT_OF_MEMORY, TRUE)
        ELSE
          LET h2 == Store(h, value, SubSeq(data, o2 + 1, o2 + length))
              o3 == o2 + length
              checksum == message_checksum(tlv, h)
              differs ==
                IF length >= ChecksumCompareLength
                THEN memcmp(checksum, h2[value], ChecksumCompareLength)
                ELSE outside
          IN
          IF type = TLV_CHECKSUM /\ differs THEN
            ParseFail(tlv, h2, MESSAGE_ERROR_CHECKSUM_MISMATCH, FALSE)
          ELSE
            [message |-> Append(tlv, [type |-> type, length |-> length, value |-> value]),
             heap |-> h2, offset |-> o3, result |-> MESSAGE_SUCCESS,
             nomem |-> FALSE, done |-> FALSE]

\* A loop test that stops when no whole header is left.
ParseMoreHeaders(offset, length) == offset + HeaderSize <= length

\* The test of the while loop: offset < length.
ParseMore(offset, length) == offset < length

\* The while loop: st is the state at the loop test.

RECURSIVE ParseLoop(_, _, _, _)
ParseLoop(st, data, failAt, outside) ==
  IF st.done THEN st
  ELSE IF ~ParseMore(st.offset, Len(data)) THEN [st EXCEPT !.done = TRUE]
  ELSE ParseLoop(ParseRecord(st.message, st.heap, data, st.offset, failAt, outside),
                 data, failAt, outside)

message_parse(tlv, h, data, failAt, outside) ==
  ParseLoop([message |-> message_init(tlv, h).message,
             heap |-> message_init(tlv, h).heap,
             offset |-> 0, result |-> MESSAGE_SUCCESS, nomem |-> FALSE, done |-> FALSE],
            data, failAt, outside)

----------------------------------------------------------------------------
(* message_tlv_add and the typed adders.                                   *)

\* A message_tlv_add whose capacity test is > instead of >=.
message_tlv_add_over(tlv, h, type, length, value, null) ==
  IF Len(tlv) > MAX_TLV_COUNT THEN
    [message |-> tlv, heap |-> h, result |-> MESSAGE_ERROR_TOO_MANY_TLVS, nomem |-> FALSE]
  ELSE
    LET p == IF null THEN NULL ELSE malloc(h) IN
    IF p = NULL THEN
      [message |-> tlv, heap |-> h, result |-> MESSAGE_ERROR_OUT_OF_MEMORY, nomem |-> TRUE]
    ELSE
      [message |-> Append(tlv, [type |-> type, length |-> length, value |-> p]),
       heap |-> Store(h, p, SubSeq(value, 1, length)),
       result |-> MESSAGE_SUCCESS, nomem |-> FALSE]

\* A message_tlv_add that counts the record before it tests the malloc.
message_tlv_add_early(tlv, h, type, length, value, null) ==
  IF Len(tlv) >= MAX_TLV_COUNT THEN
    [message |-> tlv, heap |-> h, result |-> MESSAGE_ERROR_TOO_MANY_TLVS, nomem |-> FALSE]
  ELSE
    LET p == IF null THEN NULL ELSE malloc(h) IN
    IF p = NULL THEN
      [message |-> Append(tlv, [type |-> type, length |-> length, value |-> NULL]),
       heap |-> h, result |-> MESSAGE_ERROR_OUT_OF_MEMORY, nomem |-> TRUE]
    ELSE
      [message |-> Append(tlv, [type |-> type, length |-> length, value |-> p]),
       heap |-> Store(h, p, SubSeq(value, 1, length)),
       result |-> MESSAGE_SUCCESS, nomem |-> FALSE]

\* null: whether malloc returns NULL.
message_tlv_add(tlv, h, type, length, value, null) ==
  IF Len(tlv) >= MAX_TLV_COUNT THEN
    [message |-> tlv, heap |-> h, result |-> MESSAGE_ERROR_TOO_MANY_TLVS, nomem |-> FALSE]
  ELSE
    LET p == IF null THEN NULL ELSE malloc(h) IN
    IF p = NULL THEN
      [message |-> tlv, heap |-> h, result |-> MESSAGE_ERROR_OUT_OF_MEMORY, nomem |-> TRUE]
    ELSE
      [message |-> Append(tlv, [type |-> type, length |-> length, value |-> p]),
       heap |-> Store(h, p, SubSeq(value, 1, length)),
       result |-> MESSAGE_SUCCESS, nomem |-> FALSE]

message_tlv_add_command(tlv, h, command, null) ==
  message_tlv_add(tlv, h, TLV_COMMAND, 1, <<command % 256>>, null)

message_tlv_add_reply(tlv, h, reply, null) ==
  message_tlv_add(tlv, h, TLV_REPLY, 1, <<reply % 256>>, null)

message_tlv_add_motor_position(tlv, h, position, null) ==
  message_tlv_add(tlv, h, TLV_MOTOR_POSITION, MotorPositionSize,
                  htonl(position[1]) \o htonl(position[2]) \o htonl(position[3]), null)

message_tlv_add_current_reading(tlv, h, current, null) ==
  message_tlv_add(tlv, h, TLV_CURRENT_READING, 2, htons(current), null)

message_tlv_add_checksum(tlv, h, null) ==
  message_tlv_add(tlv, h, TLV_CHECKSUM, 4, message_checksum(tlv, h), null)

----------------------------------------------------------------------------
(* message_tlv_get and the typed getters.                                  *)

\* What a failed assert leaves: the process ends on SIGABRT (128 + 6).
Aborted == 128 + 6

\* The index of the last record of `type`, 0 when there is none.
LastOfType(tlv, type) ==
  IF \E i \in 1 .. Len(tlv) : tlv[i].type = type
  THEN CHOOSE i \in 1 .. Len(tlv) :
         /\ tlv[i].type = type
         /\ \A j \in i + 1 .. Len(tlv) : tlv[j].type # type
  ELSE 0

\* The index of the first record of `type` (1-based), 0 when there is none.
FirstOfType(tlv, type) ==
  IF \E i \in 1 .. Len(tlv) : tlv[i].type = type
  THEN CHOOSE i \in 1 .. Len(tlv) :
         /\ tlv[i].type = type
         /\ \A j \in 1 .. i - 1 : tlv[j].type # type
  ELSE 0

\* memcpy(destination, source, n) into a destination of Len(destination)
\* bytes: what lands inside the destination.
memcpy(destination, source, n) ==
  [k \in 1 .. Len(destination) |-> IF k <= n THEN source[k] ELSE destination[k]]

\* What a write past the end of the caller's variable may do instead of
\* going unnoticed: the process ends on SIGSEGV (128 + 11).
Faulted == 128 + 11

\* destination: the `length` bytes the caller passes.  env.ndebug: whether
\* the build compiles the assert out; the copy of a longer record then
\* writes past the destination, and env.fault says whether that write ends
\* the process or goes through.
message_tlv_get(tlv, h, type, destination, length, env) ==
  LET i == FirstOfType(tlv, type) IN
  IF i = 0 THEN
    [result |-> MESSAGE_ERROR_TLV_NOT_FOUND, destination |-> destination]
  ELSE IF ~(tlv[i].length <= length) /\ ~env.ndebug THEN
    [result |-> Aborted, destination |-> destination]
  ELSE IF ~(tlv[i].length <= length) /\ env.fault THEN
    [result |-> Faulted, destination |-> destination]
  ELSE
    [result |-> MESSAGE_SUCCESS,
     destination |-> memcpy(destination, h[tlv[i].value], tlv[i].length)]

\* The typed getters return the call's result and the caller's destination
\* after it, as typed values.  Every byte the call does not write holds g.
message_tlv_get_command(tlv, h, g, env) ==
  LET r == message_tlv_get(tlv, h, TLV_COMMAND, <<g>>, 1, env) IN
  IF r.result # MESSAGE_SUCCESS THEN [result |-> r.result, out |-> <<g>>]
  ELSE [result |-> MESSAGE_SUCCESS, out |-> <<r.destination[1]>>]

message_tlv_get_reply(tlv, h, g, env) ==
  LET r == message_tlv_get(tlv, h, TLV_REPLY, <<g>>, 1, env) IN
  IF r.result # MESSAGE_SUCCESS THEN [result |-> r.result, out |-> <<g>>]
  ELSE [result |-> MESSAGE_SUCCESS, out |-> <<r.destination[1]>>]

message_tlv_get_motor_position(tlv, h, g, env) ==
  LET r == message_tlv_get(tlv, h, TLV_MOTOR_POSITION,
                           [k \in 1 .. MotorPositionSize |-> g],
                           MotorPositionSize, env)
      d == r.destination
  IN
  IF r.result # MESSAGE_SUCCESS THEN
    [result |-> r.result,
     out |-> <<ntohl(<<g, g, g, g>>), ntohl(<<g, g, g, g>>), ntohl(<<g, g, g, g>>)>>]
  ELSE
    [result |-> MESSAGE_SUCCESS,
     out |-> <<ntohl(SubSeq(d, 1, 4)), ntohl(SubSeq(d, 5, 8)), ntohl(SubSeq(d, 9, 12))>>]

message_tlv_get_current_reading(tlv, h, g, env) ==
  LET r == message_tlv_get(tlv, h, TLV_CURRENT_READING, <<g, g>>, 2, env) IN
  IF r.result # MESSAGE_SUCCESS THEN [result |-> r.result, out |-> <<ntohs(<<g, g>>)>>]
  ELSE [result |-> MESSAGE_SUCCESS, out |-> <<ntohs(r.destination)>>]

----------------------------------------------------------------------------
(* message_serialized_size, message_serialize.                             *)

RECURSIVE SizeLoop(_, _)
SizeLoop(tlv, st) ==
  IF st.i > Len(tlv) THEN st.size
  ELSE SizeLoop(tlv, [size |-> st.size + HeaderSize + tlv[st.i].length, i |-> st.i + 1])

message_serialized_size(tlv) == SizeLoop(tlv, [size |-> 0, i |-> 1])

\* `bytes` copied to buffer + offset.
Write(buf, offset, bytes) ==
  SubSeq(buf, 1, offset) \o bytes \o SubSeq(buf, offset + Len(bytes) + 1, Len(buf))

\* The for loop of message_serialize; st holds buffer, i, offset and
\* remaining_buffer.
RECURSIVE SerializeLoop(_, _, _)
SerializeLoop(tlv, h, st) ==
  IF st.i > Len(tlv) THEN [result |-> st.offset, buffer |-> st.buffer]
  ELSE
    LET tlv_length == HeaderSize + tlv[st.i].length IN
    IF st.remaining_buffer < tlv_length THEN
      [result |-> MESSAGE_ERROR_BUFFER_TOO_SMALL, buffer |-> st.buffer]
    ELSE
      SerializeLoop(tlv, h,
        [buffer |-> Write(st.buffer, st.offset,
                          <<tlv[st.i].type>> \o htons(tlv[st.i].length)
                            \o Value(h, tlv[st.i])),
         i |-> st.i + 1,
         offset |-> st.offset + tlv_length,
         remaining_buffer |-> st.remaining_buffer - tlv_length])

\* buf: the caller's buffer of `length` bytes as it is before the call.
message_serialize(buf, length, tlv, h) ==
  SerializeLoop(tlv, h, [buffer |-> buf, i |-> 1, offset |-> 0, remaining_buffer |-> length])

----------------------------------------------------------------------------
(* The inputs of the calls.                                                *)

\* A record on the wire: type, declared length, then the bytes that follow.
Wire(type, length, bytes) == <<type, length \div 256, length % 256>> \o bytes

\* A well-formed record, by type and value.
Rec(type, value) == [type |-> type, value |-> value]

RECURSIVE Encode(_)
Encode(recs) ==
  IF recs = <<>> THEN <<>>
  ELSE Wire(Head(recs).type, Len(Head(recs).value), Head(recs).value)
         \o Encode(Tail(recs))

RECURSIVE Values(_)
Values(recs) ==
  IF recs = <<>> THEN <<>> ELSE Head(recs).value \o Values(Tail(recs))

\* The CHECKSUM record a producer appends to `recs`: the CRC-32 of the value
\* bytes of recs, in record order, most significant byte first.
ChecksumOf(recs) == Rec(TLV_CHECKSUM, htonlBits(crc32({}, Values(recs))))

CommandRec == Rec(TLV_COMMAND, <<COMMAND_MOVE_MOTOR>>)
CurrentRec == Rec(TLV_CURRENT_READING, <<1, 2>>)
MotorRec == Rec(TLV_MOTOR_POSITION, <<255, 255, 255, 255, 0, 15, 66, 64, 0, 0, 0, 0>>)
EmptyRec == Rec(TLV_SFP_CALIBRATION, <<>>)

BodyRecs == {CommandRec, CurrentRec, MotorRec, EmptyRec}

\* The record lists of at most n records.
Bodies(n) == UNION {[1 .. k -> BodyRecs] : k \in 0 .. n}

\* [A, B, ...], [A, B, ..., CHECKSUM] and [A, B, ..., CHECKSUM, C].
PlainFrames == {Encode(b) : b \in Bodies(MaxFrameRecs)}

ChecksummedFrames == {Encode(Append(b, ChecksumOf(b))) : b \in Bodies(MaxFrameRecs)}

TrailerRecs == {CommandRec, EmptyRec}

TrailedFrames ==
  {Encode(Append(b, ChecksumOf(b)) \o <<c>>) : b \in Bodies(MaxFrameRecs), c \in TrailerRecs}

\* Every frame above cut short.
Prefixes(f) == {SubSeq(f, 1, n) : n \in 0 .. Len(f) - 1}

TruncatedFrames ==
  UNION {Prefixes(Encode(Append(b, ChecksumOf(b)))) : b \in Bodies(1)}

\* The bytes a transport error puts in place of a value byte.
MutBytes == {0, 151}

\* The offsets (0-based) of the value bytes of records A and B in [A, B, ...].
ValueOffsets(A, B) ==
  {HeaderSize + k : k \in 0 .. Len(A.value) - 1}
    \cup {2 * HeaderSize + Len(A.value) + k : k \in 0 .. Len(B.value) - 1}

\* [A, B, CHECKSUM(A, B)] with one value byte of A or B changed.
MutatedAt(f, o) == {[f EXCEPT ![o + 1] = v] : v \in MutBytes \ {f[o + 1]}}

MutatedFrames ==
  UNION {UNION {MutatedAt(Encode(<<r[1], r[2], ChecksumOf(r)>>), o)
                  : o \in ValueOffsets(r[1], r[2])}
           : r \in [1 .. 2 -> BodyRecs \ {EmptyRec}]}

\* Runs of one command record, up to one more than a message holds.
RECURSIVE Repeat(_, _)
Repeat(r, n) == IF n = 0 THEN <<>> ELSE <<r>> \o Repeat(r, n - 1)

LongFrames ==
  {Encode(Repeat(CommandRec, n)) : n \in MAX_TLV_COUNT - 1 .. MAX_TLV_COUNT + 1}

\* A record of a typed kind whose declared length is not the kind's wire
\* size, then a command record; a checksum record of a wrong length starts
\* with the bytes of the right checksum.
OddLengths ==
  [t \in {TLV_COMMAND, TLV_REPLY, TLV_CHECKSUM, TLV_MOTOR_POSITION, TLV_CURRENT_READING}
     |-> CASE t = TLV_COMMAND -> {0, 2}
           [] t = TLV_REPLY -> {0, 2}
           [] t = TLV_CHECKSUM -> {0, 3, 5}
           [] t = TLV_MOTOR_POSITION -> {4, 13}
           [] t = TLV_CURRENT_READING -> {1, 3}]

OddValue(t, n) ==
  IF t = TLV_CHECKSUM
  THEN SubSeq(ChecksumOf(<<>>).value \o <<9>>, 1, n)
  ELSE [k \in 1 .. n |-> k]

OddFrames ==
  UNION {{Wire(t, n, OddValue(t, n)) \o Encode(<<CommandRec>>) : n \in OddLengths[t]}
           : t \in DOMAIN OddLengths}

\* [command, CHECKSUM] whose checksum is wrong in its k-th byte only.
BadChecksumFrames ==
  {Encode(<<CommandRec,
            Rec(TLV_CHECKSUM,
                [ChecksumOf(<<CommandRec>>).value EXCEPT ![k] = (@ + 1) % 256])>>)
     : k \in 1 .. 4}

\* Two records of one typed kind with different values, both of the kind's
\* wire size.
TwinFrames ==
  {Encode(<<Rec(TLV_COMMAND, <<1>>), CommandRec>>),
   Encode(<<Rec(TLV_REPLY, <<2>>), Rec(TLV_REPLY, <<REPLY_STATUS_REPORT>>)>>),
   Encode(<<Rec(TLV_CURRENT_READING, <<3, 4>>), CurrentRec>>),
   Encode(<<Rec(TLV_MOTOR_POSITION, <<0, 0, 0, 7, 128, 0, 0, 0, 127, 255, 255, 255>>),
            MotorRec>>)}

ParseInputs ==
  PlainFrames \cup ChecksummedFrames \cup TrailedFrames \cup TruncatedFrames
    \cup MutatedFrames \cup LongFrames \cup OddFrames \cup BadChecksumFrames
    \cup TwinFrames

\* What the environment decides in a parse.  failAt: the record index whose
\* malloc returns NULL (-1: none).  outside: what a memcmp that reads past
\* the end of a value buffer answers.
Faults ==
  {[failAt |-> i, outside |-> FALSE] : i \in -1 .. MaxFrameRecs}
    \cup {[failAt |-> -1, outside |-> TRUE]}

\* What uninitialised or caller-owned memory may hold.
GarbageBytes == {0, 255}

\* The build (assert compiled in or out) and, without the assert, what a
\* write past the destination does.
Builds ==
  {[ndebug |-> FALSE, fault |-> FALSE],
   [ndebug |-> TRUE, fault |-> FALSE],
   [ndebug |-> TRUE, fault |-> TRUE]}

CommandInputs == {COMMAND_MOVE_MOTOR}
ReplyInputs == {REPLY_STATUS_REPORT}
PositionInputs == {<<-1, 1000000, 0>>}
CurrentInputs == {258}
RawInputs == {Rec(TLV_SFP_CALIBRATION, <<>>)}

----------------------------------------------------------------------------
(* src/serial.c: the two serial devices.                                   *)
(*                                                                         *)
(* A struct serial_device is ready, device (whether the path is set) and   *)
(* ufd: its descriptor number fd and libubox's registered flag.  An open   *)
(* descriptor is kept with the device that opened it (owner) and with the  *)
(* uloop_fd the event loop watches it for (epoll, "none" when unwatched).  *)

Devices == {"motors", "accelerometer"}

\* What serial_init_device meets: open fails, tcgetattr fails, tcsetattr
\* fails, or everything succeeds.
Outcomes == {"open", "tcgetattr", "tcsetattr", "ok"}

\* The two static structs before serial_init: all zero.
StaticDevices ==
  [d \in Devices |-> [ready |-> 0, device |-> FALSE, fd |-> 0, registered |-> FALSE]]

\* Standard input, output and error.
StandardFds == [n \in 0 .. 2 |-> [owner |-> "std", epoll |-> "none"]]

\* open(2) returns the lowest descriptor number that is not open.
LowestFree(f) == CHOOSE n \in 0 .. Cardinality(DOMAIN f) : n \notin DOMAIN f

\* close(fd): the number is free again; EBADF when it was not open.
close(f, fd) == [n \in DOMAIN f \ {fd} |-> f[n]]

\* uloop_fd_delete(&cfg->ufd): nothing for an unregistered uloop_fd;
\* otherwise clears registered and removes the number ufd.fd from the
\* event loop.
uloop_fd_delete(st, d) ==
  IF ~st.devices[d].registered THEN st
  ELSE
    LET fd == st.devices[d].fd IN
    [st EXCEPT !.devices[d].registered = FALSE,
               !.fds = IF fd \in DOMAIN st.fds
                       THEN [st.fds EXCEPT ![fd].epoll = "none"]
                       ELSE st.fds]

\* uloop_fd_add(&cfg->ufd, ULOOP_READ) on the descriptor just opened.
uloop_fd_add(st, d) ==
  LET fd == st.devices[d].fd IN
  [st EXCEPT !.devices[d].registered = TRUE, !.fds[fd].epoll = d]

\* st: [devices, fds, result].  o: what this attempt meets.
serial_init_device(st, d, o) ==
  IF st.devices[d].ready # 0 \/ ~st.devices[d].device THEN
    [st EXCEPT !.result = -1]
  ELSE IF o = "open" THEN
    [st EXCEPT !.devices[d].fd = -1, !.result = -1]
  ELSE
    LET fd == LowestFree(st.fds)
        opened == [st EXCEPT !.devices[d].fd = fd,
                             !.fds = (fd :> [owner |-> d, epoll |-> "none"]) @@ st.fds]
    IN
    IF o = "tcgetattr" \/ o = "tcsetattr" THEN
      [opened EXCEPT !.fds = close(opened.fds, fd), !.result = -1]
    ELSE
      [uloop_fd_add([opened EXCEPT !.devices[d].ready = 1], d) EXCEPT !.result = 0]

serial_reinit_device(st, d, o) ==
  LET unready == [st EXCEPT !.devices[d].ready = 0]
      deleted == uloop_fd_delete(unready, d)
      closed == [deleted EXCEPT !.fds = close(deleted.fds, deleted.devices[d].fd)]
  IN serial_init_device(closed, d, o)

\* frame_parser_init, then serial_init_device(cfg, 0).
serial_start_device(st, d, o) == serial_init_device(st, d, o)

\* om, oa: what the init of each device meets.
serial_init(st, om, oa) ==
  LET m0 == [st EXCEPT !.devices["motors"].ready = 0,
                       !.devices["motors"].device = TRUE]
      m1 == serial_start_device(m0, "motors", om)
  IN
  IF m1.result # 0 THEN m1
  ELSE
    LET a0 == [m1 EXCEPT !.devices["accelerometer"].ready = 0,
                         !.devices["accelerometer"].device = TRUE]
    IN [serial_start_device(a0, "accelerometer", oa) EXCEPT !.result = 0]

\* The device whose ufd.fd is fd: the motors first; "none" for NULL.
serial_get_device_fd(devs, fd) ==
  IF fd = devs["motors"].fd THEN "motors"
  ELSE IF fd = devs["accelerometer"].fd THEN "accelerometer"
  ELSE "none"

\* u: the device whose uloop_fd the event loop passes.  readOk: whether
\* read() returns a size >= 0.  The result is the device reinitialised.
serial_fd_handler(st, u, readOk, o) ==
  LET cfg == serial_get_device_fd(st.devices, st.devices[u].fd) IN
  IF cfg = "none" \/ st.devices[cfg].ready = 0 THEN [st |-> st, reinit |-> "none"]
  ELSE IF ~(readOk /\ st.devices[cfg].fd \in DOMAIN st.fds) THEN
    [st |-> serial_reinit_device(st, cfg, o), reinit |-> cfg]
  ELSE [st |-> st, reinit |-> "none"]

\* framed: whether frame_message returns a size >= 0.  writeOk: whether
\* every write() does; a write to a number that is not open fails.
serial_send_message(st, d, framed, writeOk, o) ==
  IF st.devices[d].ready = 0 THEN
    [st |-> [serial_reinit_device(st, d, o) EXCEPT !.result = -1], reinit |-> d]
  ELSE IF st.devices[d].fd < 0 THEN
    [st |-> [serial_reinit_device(st, d, o) EXCEPT !.result = -1], reinit |-> d]
  ELSE IF ~framed THEN
    [st |-> [st EXCEPT !.result = -1], reinit |-> "none"]
  ELSE IF ~(writeOk /\ st.devices[d].fd \in DOMAIN st.fds) THEN
    [st |-> [serial_reinit_device(st, d, o) EXCEPT !.result = -1], reinit |-> d]
  ELSE [st |-> [st EXCEPT !.result = 0], reinit |-> "none"]

\* The serial state while only the message codec runs.
SerialIdle ==
  /\ devices = StaticDevices
  /\ fds = StandardFds
  /\ reinit = "none"

----------------------------------------------------------------------------
(* The calls.                                                              *)

\* A state with a leaked buffer is explored no further, except through
\* message_free.
NoLeak == Leaked(message, heap) = {}

\* Adds are explored below MaxVaried records, on a full message, and along
\* runs of one repeated command record.
IsRun(tlv, h) ==
  \A i \in 1 .. Len(tlv) :
    tlv[i].type = TLV_COMMAND /\ Value(h, tlv[i]) = <<COMMAND_MOVE_MOTOR>>

AddAllowed(run) ==
  /\ NoLeak
  /\ Len(message) <= MAX_TLV_COUNT
  /\ \/ Len(message) < MaxVaried
     \/ Len(message) = MAX_TLV_COUNT
     \/ run /\ IsRun(message, heap)

\* The names of the calls that add a record.
AddOps ==
  {"add", "add_command", "add_reply", "add_motor_position", "add_current_reading",
   "add_checksum"}

GetOps == {"get_command", "get_reply", "get_motor_position", "get_current_reading"}

\* The state after an add that returned r.
Added(name, r) ==
  /\ message' = r.message
  /\ heap' = r.heap
  /\ op' = name
  /\ result' = r.result
  /\ nomem' = r.nomem
  /\ buffer' = <<>>
  /\ out' = <<>>
  /\ UNCHANGED serialVars

\* The state after a getter that returned r.
Got(name, r) ==
  /\ NoLeak
  /\ op' = name
  /\ result' = r.result
  /\ out' = r.out
  /\ buffer' = <<>>
  /\ nomem' = FALSE
  /\ UNCHANGED <<message, heap>>
  /\ UNCHANGED serialVars

MessageInit ==
  /\ NoLeak
  /\ message' = message_init(message, heap).message
  /\ heap' = message_init(message, heap).heap
  /\ op' = "init"
  /\ result' = MESSAGE_SUCCESS
  /\ buffer' = <<>>
  /\ out' = <<>>
  /\ nomem' = FALSE
  /\ UNCHANGED serialVars

MessageFree ==
  /\ message' = message_free(message, heap).message
  /\ heap' = message_free(message, heap).heap
  /\ op' = "free"
  /\ result' = MESSAGE_SUCCESS
  /\ buffer' = <<>>
  /\ out' = <<>>
  /\ nomem' = FALSE
  /\ UNCHANGED serialVars

\* message_parse(&message, data, Len(data)) on a buffer the transport
\* delivered, into a message that was just initialised or freed.
Parse ==
  \E data \in ParseInputs, fault \in Faults :
    /\ NoLeak
    /\ op \in {"init", "free"}
    /\ LET r == message_parse(message, heap, data, fault.failAt, fault.outside) IN
       /\ message' = r.message
       /\ heap' = r.heap
       /\ op' = "parse"
       /\ result' = r.result
       /\ nomem' = r.nomem
       /\ buffer' = data
       /\ out' = <<>>
       /\ UNCHANGED serialVars

\* message_parse on the bytes the last message_serialize wrote.
ParseSerialized ==
  \E failAt \in {-1, 0} :
    /\ op = "serialize"
    /\ result >= 0
    /\ NoLeak
    /\ LET data == SubSeq(buffer, 1, result)
           r == message_parse(message, heap, data, failAt, FALSE)
       IN
       /\ message' = r.message
       /\ heap' = r.heap
       /\ op' = "parse"
       /\ result' = r.result
       /\ nomem' = r.nomem
       /\ buffer' = data
       /\ out' = <<>>
       /\ UNCHANGED serialVars

TlvAdd ==
  \E r \in RawInputs, null \in BOOLEAN :
    /\ AddAllowed(FALSE)
    /\ Added("add", message_tlv_add(message, heap, r.type, Len(r.value), r.value, null))

AddCommand ==
  \E command \in CommandInputs, null \in BOOLEAN :
    /\ AddAllowed(command = COMMAND_MOVE_MOTOR)
    /\ Added("add_command", message_tlv_add_command(message, heap, command, null))

AddReply ==
  \E reply \in ReplyInputs, null \in BOOLEAN :
    /\ AddAllowed(FALSE)
    /\ Added("add_reply", message_tlv_add_reply(message, heap, reply, null))

AddMotorPosition ==
  \E position \in PositionInputs, null \in BOOLEAN :
    /\ AddAllowed(FALSE)
    /\ Added("add_motor_position", message_tlv_add_motor_position(message, heap, position, null))

AddCurrentReading ==
  \E current \in CurrentInputs, null \in BOOLEAN :
    /\ AddAllowed(FALSE)
    /\ Added("add_current_reading", message_tlv_add_current_reading(message, heap, current, null))

AddChecksum ==
  \E null \in BOOLEAN :
    /\ AddAllowed(FALSE)
    /\ Added("add_checksum", message_tlv_add_checksum(message, heap, null))

GetCommand ==
  \E g \in GarbageBytes, env \in Builds :
    Got("get_command", message_tlv_get_command(message, heap, g, env))

GetReply ==
  \E g \in GarbageBytes, env \in Builds :
    Got("get_reply", message_tlv_get_reply(message, heap, g, env))

GetMotorPosition ==
  \E g \in GarbageBytes, env \in Builds :
    Got("get_motor_position", message_tlv_get_motor_position(message, heap, g, env))

GetCurrentReading ==
  \E g \in GarbageBytes, env \in Builds :
    Got("get_current_reading", message_tlv_get_current_reading(message, heap, g, env))

\* message_serialize(buffer, length, &message) into a buffer of `length`
\* bytes that all hold g before the call.
Serialize ==
  \E d \in -1 .. 1, g \in GarbageBytes :
    LET length == message_serialized_size(message) + d IN
    /\ NoLeak
    /\ length >= 0
    /\ LET r == message_serialize([k \in 1 .. length |-> g], length, message, heap) IN
       /\ op' = "serialize"
       /\ result' = r.result
       /\ buffer' = r.buffer
       /\ out' = <<>>
       /\ nomem' = FALSE
       /\ UNCHANGED <<message, heap>>
       /\ UNCHANGED serialVars

\* The state after message_init on a new message_t.
Init ==
  /\ message = <<>>
  /\ heap = [p \in {} |-> <<>>]
  /\ op = "init"
  /\ result = MESSAGE_SUCCESS
  /\ buffer = <<>>
  /\ out = <<>>
  /\ nomem = FALSE
  /\ SerialIdle

Next ==
  \/ MessageInit
  \/ MessageFree
  \/ Parse
  \/ ParseSerialized
  \/ TlvAdd
  \/ AddCommand
  \/ AddReply
  \/ AddMotorPosition
  \/ AddCurrentReading
  \/ AddChecksum
  \/ GetCommand
  \/ GetReply
  \/ GetMotorPosition
  \/ GetCurrentReading
  \/ Serialize

Spec == Init /\ [][Next]_vars

----------------------------------------------------------------------------
(* What the claims are stated with.                                        *)

\* The complete records at the start of `data`, read off the wire format:
\* type, two length bytes (most significant first), value.
RECURSIVE Decode(_)
Decode(data) ==
  IF Len(data) < HeaderSize THEN <<>>
  ELSE
    LET n == data[2] * 256 + data[3] IN
    IF Len(data) < HeaderSize + n THEN <<>>
    ELSE <<Rec(data[1], SubSeq(data, HeaderSize + 1, HeaderSize + n))>>
           \o Decode(SubSeq(data, HeaderSize + n + 1, Len(data)))

\* The records of a message, as type and value bytes.
Records(tlv, h) == [i \in 1 .. Len(tlv) |-> Rec(tlv[i].type, Value(h, tlv[i]))]

\* The declared lengths of the records of a message.
Lengths(tlv) == [i \in 1 .. Len(tlv) |-> tlv[i].length]

\* Bytes remain after the last complete record of `data`: the buffer is cut
\* off inside a header or inside a value.
CutShort(data) == Len(Encode(Decode(data))) < Len(data)

\* Every CHECKSUM record of recs holds the checksum of the records before it.
ChecksumsRight(recs) ==
  \A i \in 1 .. Len(recs) :
    recs[i].type = TLV_CHECKSUM => recs[i] = ChecksumOf(SubSeq(recs, 1, i - 1))

\* The sum over the records of 1 + 2 + length.
RECURSIVE WireSize(_)
WireSize(tlv) ==
  IF tlv = <<>> THEN 0 ELSE 1 + 2 + Head(tlv).length + WireSize(Tail(tlv))

ResultCodes ==
  {MESSAGE_SUCCESS, MESSAGE_ERROR_TOO_MANY_TLVS, MESSAGE_ERROR_OUT_OF_MEMORY,
   MESSAGE_ERROR_BUFFER_TOO_SMALL, MESSAGE_ERROR_PARSE_ERROR,
   MESSAGE_ERROR_CHECKSUM_MISMATCH, MESSAGE_ERROR_TLV_NOT_FOUND}

----------------------------------------------------------------------------
(* C1.  message_parse compares all 4 bytes of the recomputed checksum with *)
(* the CHECKSUM record: a buffer [A, B, CHECKSUM(A,B)] in which one value  *)
(* byte of A or B was changed, so that the recomputed checksum is not the  *)
(* record's value, makes message_parse return                              *)
(* MESSAGE_ERROR_CHECKSUM_MISMATCH.                                        *)
C1_MutationDetected ==
  (/\ op = "parse"
   /\ ~nomem
   /\ buffer \in MutatedFrames
   /\ Decode(buffer)[3] # ChecksumOf(SubSeq(Decode(buffer), 1, 2)))
    => result = MESSAGE_ERROR_CHECKSUM_MISMATCH

----------------------------------------------------------------------------
(* C2.  On every failure path of message_parse every value buffer          *)
(* allocated during the call has been freed when the call returns: the     *)
(* live buffers after a failed parse are among those live before it.       *)
C2_FailedParseFreesAll ==
  [][(op' = "parse" /\ result' # MESSAGE_SUCCESS) => DOMAIN heap' \subseteq DOMAIN heap]_vars

----------------------------------------------------------------------------
----------------------------------------------------------------------------
(* C4.  Round trip: a message whose checksum records are the ones          *)
(* message_tlv_add_checksum wrote is serialized into a buffer of           *)
(* message_serialized_size bytes; parsing that buffer, when the            *)
(* allocations succeed, returns MESSAGE_SUCCESS and yields the same number *)
(* of records with, position by position, the same type, length and value. *)
C4_RoundTrip ==
  [][(/\ op = "serialize"
      /\ result >= 0
      /\ Len(buffer) = message_serialized_size(message)
      /\ ChecksumsRight(Records(message, heap))
      /\ op' = "parse"
      /\ ~nomem')
       => /\ result' = MESSAGE_SUCCESS
          /\ Len(message') = Len(message)
          /\ Lengths(message') = Lengths(message)
          /\ Records(message', heap') = Records(message, heap)]_vars

\* The bytes message_serialize wrote for [motor position, CHECKSUM] were
\* parsed back into the message that still held the two records.
C4_Witness ==
  /\ op = "parse"
  /\ result = MESSAGE_SUCCESS
  /\ Cardinality(Leaked(message, heap)) = 2
  /\ Len(message) = 2
  /\ Records(message, heap) = <<MotorRec, ChecksumOf(<<MotorRec>>)>>
  /\ buffer = Encode(Records(message, heap))

----------------------------------------------------------------------------
(* C5.  A checksum covers exactly the records before it: a successful      *)
(* message_tlv_add_checksum appends a CHECKSUM record whose value is the   *)
(* checksum of the records present before the call; and a buffer           *)
(* [A.., CHECKSUM(A..)], with or without one more well-formed record C     *)
(* after the checksum, parses to MESSAGE_SUCCESS with the records it       *)
(* encodes, when the allocations succeed.                                  *)
C5_ChecksumCoverage ==
  [][/\ (op' = "add_checksum" /\ result' = MESSAGE_SUCCESS)
          => Records(message', heap')
               = Append(Records(message, heap), ChecksumOf(Records(message, heap)))
     /\ (/\ op' = "parse"
         /\ ~nomem'
         /\ buffer' \in ChecksummedFrames \cup TrailedFrames)
          => /\ result' = MESSAGE_SUCCESS
             /\ Records(message', heap') = Decode(buffer')]_vars

\* [A, B, CHECKSUM(A,B), C] was parsed: four records, the third the checksum
\* of the first two.
C5_Witness ==
  /\ op = "parse"
  /\ result = MESSAGE_SUCCESS
  /\ buffer \in TrailedFrames
  /\ Len(message) = 4
  /\ message[3].type = TLV_CHECKSUM
  /\ Records(message, heap)[3] = ChecksumOf(SubSeq(Records(message, heap), 1, 2))

----------------------------------------------------------------------------
(* C6.  The record count never exceeds MAX_TLV_COUNT (25).  An add on a    *)
(* message of 25 records returns MESSAGE_ERROR_TOO_MANY_TLVS and keeps the *)
(* 25 records; a parse of a buffer of 26 well-formed records returns       *)
(* MESSAGE_ERROR_TOO_MANY_TLVS and a parse of a buffer of exactly 25       *)
(* well-formed records returns MESSAGE_SUCCESS with 25 records, when the   *)
(* allocations succeed.                                                    *)
C6_CountBounded ==
  [][/\ Len(message') <= MAX_TLV_COUNT
     /\ (op' \in AddOps /\ Len(message) = MAX_TLV_COUNT)
          => result' = MESSAGE_ERROR_TOO_MANY_TLVS /\ Len(message') = MAX_TLV_COUNT
     /\ (op' = "parse" /\ ~nomem' /\ Len(Decode(buffer')) > MAX_TLV_COUNT
           /\ ~CutShort(buffer'))
          => result' = MESSAGE_ERROR_TOO_MANY_TLVS
     /\ (op' = "parse" /\ ~nomem' /\ buffer' = Encode(Repeat(CommandRec, MAX_TLV_COUNT)))
          => result' = MESSAGE_SUCCESS /\ Len(message') = MAX_TLV_COUNT]_vars

\* An add was refused on a full message.
C6_Witness ==
  /\ op \in AddOps
  /\ result = MESSAGE_ERROR_TOO_MANY_TLVS
  /\ Len(message) = MAX_TLV_COUNT

----------------------------------------------------------------------------
(* C7.  Truncation: a buffer of fewer than 25 complete records, with right *)
(* checksums, after which 1 or 2 bytes remain, or a whole header whose     *)
(* declared length exceeds the bytes left, makes message_parse return      *)
(* MESSAGE_ERROR_PARSE_ERROR when the allocations succeed; the empty       *)
(* buffer parses to MESSAGE_SUCCESS with zero records.                     *)
C7_Truncation ==
  /\ (/\ op = "parse"
      /\ ~nomem
      /\ CutShort(buffer)
      /\ Len(Decode(buffer)) < MAX_TLV_COUNT
      /\ ChecksumsRight(Decode(buffer)))
       => result = MESSAGE_ERROR_PARSE_ERROR /\ message = <<>>
  /\ (op = "parse" /\ buffer = <<>>)
       => result = MESSAGE_SUCCESS /\ message = <<>>

\* A buffer that ends one or two bytes into the header of its second record
\* was parsed.
C7_Witness ==
  /\ op = "parse"
  /\ result = MESSAGE_ERROR_PARSE_ERROR
  /\ Len(Decode(buffer)) = 1
  /\ Len(buffer) - Len(Encode(Decode(buffer))) \in {1, 2}

----------------------------------------------------------------------------
(* C8.  No getter aborts: after message_parse, every typed getter returns  *)
(* one of the result codes of message_result_t.                            *)
C8_GettersReturn == op \in GetOps => result \in ResultCodes

----------------------------------------------------------------------------
(* C9.  A failed add (MESSAGE_ERROR_TOO_MANY_TLVS or                       *)
(* MESSAGE_ERROR_OUT_OF_MEMORY) leaves the message as it was: the same     *)
(* records with the same type, length and value buffer, and no buffer      *)
(* allocated.                                                              *)
C9_FailedAddKeeps ==
  [][(op' \in AddOps /\ result' # MESSAGE_SUCCESS)
       => /\ result' \in {MESSAGE_ERROR_TOO_MANY_TLVS, MESSAGE_ERROR_OUT_OF_MEMORY}
          /\ message' = message
          /\ heap' = heap]_vars

\* An add failed for lack of memory on a message that holds a record.
C9_Witness ==
  /\ op \in AddOps
  /\ result = MESSAGE_ERROR_OUT_OF_MEMORY
  /\ nomem
  /\ Len(message) >= 1

----------------------------------------------------------------------------
(* C10.  message_serialize into n bytes succeeds iff n is at least the sum *)
(* over the records of 3 + length, which is message_serialized_size; on   *)
(* success it returns that size and the buffer starts with the records in  *)
(* insertion order, each as type byte, length as two bytes most            *)
(* significant first, value bytes; otherwise it returns                    *)
(* MESSAGE_ERROR_BUFFER_TOO_SMALL.                                         *)
C10_Serialize ==
  op = "serialize" =>
    /\ message_serialized_size(message) = WireSize(message)
    /\ IF Len(buffer) >= WireSize(message)
       THEN /\ result = WireSize(message)
            /\ SubSeq(buffer, 1, result) = Encode(Records(message, heap))
       ELSE result = MESSAGE_ERROR_BUFFER_TOO_SMALL

\* Two records, one with a value, were written into a buffer of exactly
\* their size.
C10_Witness ==
  /\ op = "serialize"
  /\ Len(message) = 2
  /\ result = Len(buffer)
  /\ result > 2 * HeaderSize

----------------------------------------------------------------------------
(* What the getter claims are stated with.                                 *)

\* The record type a typed getter looks for, and that type's wire size.
GetType ==
  [get_command |-> TLV_COMMAND, get_reply |-> TLV_REPLY,
   get_motor_position |-> TLV_MOTOR_POSITION,
   get_current_reading |-> TLV_CURRENT_READING]

GetSize ==
  [get_command |-> 1, get_reply |-> 1, get_motor_position |-> MotorPositionSize,
   get_current_reading |-> 2]

\* The indices of the records of `type`.
OfType(tlv, type) == {i \in 1 .. Len(tlv) : tlv[i].type = type}

\* The smallest of a non-empty set of indices.
Least(S) == CHOOSE i \in S : \A j \in S : i <= j

\* Four bytes, most significant first, as a two's-complement int32_t.
Signed32(b) ==
  IF b[1] < 128
  THEN ((b[1] * 256 + b[2]) * 256 + b[3]) * 256 + b[4]
  ELSE -((((255 - b[1]) * 256 + (255 - b[2])) * 256 + (255 - b[3])) * 256
           + (255 - b[4])) - 1

\* What a typed getter hands back for a destination that holds `bytes`.
Typed(name, bytes) ==
  CASE name = "get_command" -> <<bytes[1]>>
    [] name = "get_reply" -> <<bytes[1]>>
    [] name = "get_current_reading" -> <<bytes[1] * 256 + bytes[2]>>
    [] name = "get_motor_position" ->
         <<Signed32(SubSeq(bytes, 1, 4)), Signed32(SubSeq(bytes, 5, 8)),
           Signed32(SubSeq(bytes, 9, 12))>>

\* The caller's output when no byte of it was written: every byte is one of
\* the garbage bytes.
Untouched(name) == {Typed(name, [k \in 1 .. GetSize[name] |-> g]) : g \in GarbageBytes}

----------------------------------------------------------------------------
(* C11.  Lookup order: a getter never modifies the message; it returns     *)
(* MESSAGE_ERROR_TLV_NOT_FOUND, with the output untouched, iff the message *)
(* holds no record of the type; and when the first record of the type has  *)
(* the type's wire size, it returns MESSAGE_SUCCESS with the value of that *)
(* first record, also when later records of the type exist.                *)
C11_LookupOrder ==
  [][op' \in GetOps =>
       LET S == OfType(message, GetType[op']) IN
       /\ message' = message
       /\ heap' = heap
       /\ (result' = MESSAGE_ERROR_TLV_NOT_FOUND) <=> (S = {})
       /\ S = {} => out' \in Untouched(op')
       /\ (S # {} /\ message[Least(S)].length = GetSize[op'])
            => /\ result' = MESSAGE_SUCCESS
               /\ out' = Typed(op', Value(heap, message[Least(S)]))]_vars

\* get_motor_position returned the first of two motor position records that
\* differ.
C11_Witness ==
  /\ op = "get_motor_position"
  /\ result = MESSAGE_SUCCESS
  /\ Len(message) = 2
  /\ message[1].type = TLV_MOTOR_POSITION
  /\ message[2].type = TLV_MOTOR_POSITION
  /\ Value(heap, message[1]) # Value(heap, message[2])
  /\ out = <<7, -2147483647 - 1, 2147483647>>

----------------------------------------------------------------------------
(* The motor position round trip on its own: a caller adds the position it *)
(* holds in `out` to a message without a motor position record and reads   *)
(* it back.                                                                *)

\* int32_t values at the ends and in the middle of the range.
Int32Samples == {-2147483647 - 1, -1000000, -1, 0, 1, 1000000, 2147483647}

Positions == Int32Samples \X Int32Samples \X Int32Samples

\* The message is empty or holds one command record.
InitMotor ==
  /\ \E null \in BOOLEAN :
       LET r == message_tlv_add_command(<<>>, [p \in {} |-> <<>>], COMMAND_MOVE_MOTOR, null)
       IN message = r.message /\ heap = r.heap
  /\ op = "init"
  /\ result = MESSAGE_SUCCESS
  /\ buffer = <<>>
  /\ out \in Positions
  /\ nomem = FALSE
  /\ SerialIdle

\* message_tlv_add_motor_position(&message, &position).
AddPosition ==
  \E null \in BOOLEAN :
    /\ op = "init"
    /\ LET r == message_tlv_add_motor_position(message, heap, out, null) IN
       /\ message' = r.message
       /\ heap' = r.heap
       /\ op' = "add_motor_position"
       /\ result' = r.result
       /\ nomem' = r.nomem
       /\ UNCHANGED <<buffer, out>>
       /\ UNCHANGED serialVars

\* message_tlv_get_motor_position(&message, &position) into a position
\* whose bytes all hold g.
GetPosition ==
  \E g \in GarbageBytes, env \in Builds :
    /\ op = "add_motor_position"
    /\ LET r == message_tlv_get_motor_position(message, heap, g, env) IN
       /\ op' = "get_motor_position"
       /\ result' = r.result
       /\ out' = r.out
       /\ nomem' = FALSE
       /\ UNCHANGED <<message, heap, buffer>>
       /\ UNCHANGED serialVars

NextMotor == AddPosition \/ GetPosition

SpecMotor == InitMotor /\ [][NextMotor]_vars

\* The four bytes of the two's-complement encoding of an int32_t, most
\* significant first.
BigEndian32(v) ==
  LET u == IF v >= 0 THEN v ELSE -(v + 1)
      b == <<u \div 16777216, (u \div 65536) % 256, (u \div 256) % 256, u % 256>>
  IN IF v >= 0 THEN b ELSE [k \in 1 .. 4 |-> 255 - b[k]]

----------------------------------------------------------------------------
(* C12.  Endianness: a successful message_tlv_add_motor_position of        *)
(* (x, y, z) appends a record of 12 bytes, the big-endian two's-complement *)
(* encodings of x, y and z in that order; message_tlv_get_motor_position   *)
(* on the same message then returns MESSAGE_SUCCESS and the identical      *)
(* triple.                                                                 *)
C12_MotorRoundTrip ==
  [][/\ (op' = "add_motor_position" /\ result' = MESSAGE_SUCCESS)
          => /\ Len(message') = Len(message) + 1
             /\ message'[Len(message')].type = TLV_MOTOR_POSITION
             /\ message'[Len(message')].length = 12
             /\ Value(heap', message'[Len(message')])
                  = BigEndian32(out[1]) \o BigEndian32(out[2]) \o BigEndian32(out[3])
     /\ (op' = "get_motor_position" /\ result = MESSAGE_SUCCESS)
          => result' = MESSAGE_SUCCESS /\ out' = out]_vars

\* (-1, 1000000, 0) was added after a command record and read back; the
\* record starts with FF FF FF FF.
C12_Witness ==
  /\ op = "get_motor_position"
  /\ result = MESSAGE_SUCCESS
  /\ out = <<-1, 1000000, 0>>
  /\ Len(message) = 2
  /\ SubSeq(Value(heap, message[2]), 1, 4) = <<255, 255, 255, 255>>

----------------------------------------------------------------------------
(* C13.  A CHECKSUM record that message_parse accepts was compared inside  *)
(* its own value buffer: after a successful parse every CHECKSUM record of *)
(* the message is at least as long as the bytes the comparison reads.      *)
C13_ChecksumComparedInside ==
  (op = "parse" /\ result = MESSAGE_SUCCESS)
    => \A i \in 1 .. Len(message) :
         message[i].type = TLV_CHECKSUM => message[i].length >= ChecksumCompareLength

----------------------------------------------------------------------------
(* C14.  A typed getter returns MESSAGE_SUCCESS only when the record it    *)
(* read fills its whole destination: after a successful getter the first   *)
(* record of the type is at least as long as the type's wire size.         *)
C14_SuccessFillsOutput ==
  (op \in GetOps /\ result = MESSAGE_SUCCESS)
    => message[Least(OfType(message, GetType[op]))].length >= GetSize[op]

----------------------------------------------------------------------------
(* The serial devices on their own: serial_init once, then the event loop  *)
(* calls serial_fd_handler for a watched descriptor and the program calls  *)
(* serial_send_message, in any order.                                      *)

InitSerial ==
  /\ message = <<>>
  /\ heap = [p \in {} |-> <<>>]
  /\ op = "init"
  /\ result = 0
  /\ buffer = <<>>
  /\ out = <<>>
  /\ nomem = FALSE
  /\ SerialIdle

\* The state after a serial call that left r.st and reinitialised r.reinit.
Served(name, r) ==
  /\ devices' = r.st.devices
  /\ fds' = r.st.fds
  /\ result' = r.st.result
  /\ reinit' = r.reinit
  /\ op' = name
  /\ UNCHANGED <<message, heap, buffer, out, nomem>>

\* serial_init has returned 0: the program runs its event loop.
Running ==
  /\ op \in {"serial_init", "serial_fd_handler", "serial_send_message"}
  /\ ~(op = "serial_init" /\ result # 0)

SerialInit ==
  \E om \in Outcomes, oa \in Outcomes :
    /\ op = "init"
    /\ Served("serial_init",
              [st |-> serial_init([devices |-> devices, fds |-> fds, result |-> 0], om, oa),
               reinit |-> "none"])

\* The event loop reports a descriptor it watches for the uloop_fd of u.
SerialFdHandler ==
  \E u \in Devices, readOk \in BOOLEAN, o \in Outcomes :
    /\ Running
    /\ \E n \in DOMAIN fds : fds[n].epoll = u
    /\ Served("serial_fd_handler",
              serial_fd_handler([devices |-> devices, fds |-> fds, result |-> 0],
                                u, readOk, o))

SerialSendMessage ==
  \E d \in Devices, framed \in BOOLEAN, writeOk \in BOOLEAN, o \in Outcomes :
    /\ Running
    /\ Served("serial_send_message",
              serial_send_message([devices |-> devices, fds |-> fds, result |-> 0],
                                  d, framed, writeOk, o))

NextSerial == SerialInit \/ SerialFdHandler \/ SerialSendMessage

SpecSerial == InitSerial /\ [][NextSerial]_vars

\* Device d holds its descriptor open: the number in ufd.fd is open and it
\* is the descriptor d opened.
Held(devs, f, d) == devs[d].fd \in DOMAIN f /\ f[devs[d].fd].owner = d

\* d's descriptor is open and the event loop watches it for d.
Watched(devs, f, d) ==
  /\ Held(devs, f, d)
  /\ devs[d].registered
  /\ f[devs[d].fd].epoll = d

----------------------------------------------------------------------------
(* C15.  Serial device lifecycle: after every call, a device with          *)
(* ready == 1 holds its descriptor open and registered with the event      *)
(* loop; and every serial_reinit_device on a device whose ufd.fd is a      *)
(* descriptor number (>= 0) finds the device holding that descriptor open, *)
(* so that its close is never a second close.                              *)
C15_SerialLifecycle ==
  [][/\ \A d \in Devices : devices'[d].ready = 1 => Watched(devices', fds', d)
     /\ (reinit' # "none" /\ devices[reinit'].fd >= 0)
          => Held(devices, fds, reinit')]_vars

====
